---- MODULE Spec2Model ----
(***************************************************************************)
(* Model of static/script.js: the chat widget of Bookstore-Chatbot.        *)
(*                                                                         *)
(* The script registers one "submit" listener on #chat-form.  The listener *)
(* is an async function, so one activation of it runs in up to three       *)
(* pieces, each of them atomic (JavaScript runs a task and the microtasks  *)
(* it queues to completion):                                               *)
(*   Submit       lines 7-23: up to the first await, the call of fetch     *)
(*   FetchSettle  lines 17-29: the promise of fetch settles and the        *)
(*                listener resumes, up to the second await (or the catch)  *)
(*   JsonSettle   lines 29-36: the promise of response.json() settles and  *)
(*                the listener resumes to its end                          *)
(* The user typing in #user-input (SetInput) and scrolling #chat-box       *)
(* (UserScroll) are the environment.                                       *)
(*                                                                         *)
(* A text is a sequence of units.  Typed text is a sequence of single      *)
(* characters; a literal of the program that no operation looks inside     *)
(* is one unit.  Lengths of the scrolling box are counted in rows, one     *)
(* row per message.                                                        *)
(***************************************************************************)
EXTENDS Integers, Sequences, FiniteSets, TLC

(***************************************************************************)
(* Bounds of the model.                                                    *)
(***************************************************************************)
\* the number of non-empty submissions of one run
MaxSubmissions == 2
\* chatBox.clientHeight, in rows
ClientHeight == 3

\* what the user may have typed in #user-input when an event fires
Inputs ==
    { <<>>,
      <<" ", "\t">>,
      <<" ", "a", " ">>,
      <<"\"", " ", "\\">> }

\* the HTTP status codes the server answers with
Statuses == {200, 500}

\* line 35: "Xin lỗi, đã có lỗi xảy ra. Vui lòng thử lại." (written without
\* its diacritics: a string of the model is ASCII)
Fallback == <<"Xin loi, da co loi xay ra. Vui long thu lai.">>

\* the reply texts of the server
Replies == { <<"o", "k">> }

(***************************************************************************)
(* JavaScript values that reach appendMessage, and parsed JSON bodies.     *)
(***************************************************************************)
Str(s) == [t |-> "string", s |-> s]
Undefined == [t |-> "undefined", s |-> <<>>]

\* JSON.parse of a body: an object with a "response" member, an object
\* without one, or null
JsonObject(r) == [t |-> "object", has |-> TRUE, response |-> r]
JsonEmptyObject == [t |-> "object", has |-> FALSE, response |-> <<>>]
JsonNull == [t |-> "null", has |-> FALSE, response |-> <<>>]
NoData == [t |-> "none", has |-> FALSE, response |-> <<>>]

Bodies == {JsonObject(r) : r \in Replies} \cup {JsonEmptyObject, JsonNull}

(***************************************************************************)
(* String.prototype.trim (line 8).                                         *)
(***************************************************************************)
WhiteSpace == {" ", "\t", "\n", "\r", "\f"}

RECURSIVE TrimStart(_)
TrimStart(s) ==
    IF s # <<>> /\ Head(s) \in WhiteSpace THEN TrimStart(Tail(s)) ELSE s

RECURSIVE TrimEnd(_)
TrimEnd(s) ==
    IF s # <<>> /\ s[Len(s)] \in WhiteSpace
    THEN TrimEnd(SubSeq(s, 1, Len(s) - 1))
    ELSE s

Trim(s) == TrimEnd(TrimStart(s))

(***************************************************************************)
(* JSON.stringify({ message: messageText }) (line 22) and its reading by   *)
(* the endpoint.                                                           *)
(***************************************************************************)
Escape(c) ==
    CASE c = "\"" -> <<"\\", "\"">>
      [] c = "\\" -> <<"\\", "\\">>
      [] c = "\t" -> <<"\\", "t">>
      [] c = "\n" -> <<"\\", "n">>
      [] c = "\r" -> <<"\\", "r">>
      [] c = "\f" -> <<"\\", "f">>
      [] OTHER -> <<c>>

RECURSIVE Quote(_)
Quote(s) == IF s = <<>> THEN <<>> ELSE Escape(Head(s)) \o Quote(Tail(s))

JSONStringify(message) ==
    <<"{", "\"message\"", ":", "\"">> \o Quote(message) \o <<"\"", "}">>

Unescape(c) ==
    CASE c = "t" -> "\t"
      [] c = "n" -> "\n"
      [] c = "r" -> "\r"
      [] c = "f" -> "\f"
      [] OTHER -> c

RECURSIVE Unquote(_)
Unquote(s) ==
    IF s = <<>> THEN <<>>
    ELSE IF Head(s) = "\\" /\ Len(s) >= 2
         THEN <<Unescape(s[2])>> \o Unquote(Tail(Tail(s)))
         ELSE <<Head(s)>> \o Unquote(Tail(s))

\* the "message" member the endpoint reads from a request body
MessageOf(body) == Unquote(SubSeq(body, 5, Len(body) - 2))

(***************************************************************************)
(* The scrolling box #chat-box.                                            *)
(***************************************************************************)
Max(a, b) == IF a >= b THEN a ELSE b
Min(a, b) == IF a <= b THEN a ELSE b

\* Element.scrollHeight: the height of the content, at least the box's own
ScrollHeight(children) == Max(ClientHeight, Len(children))

\* the largest scrollTop the box can have
MaxScrollTop(children) == ScrollHeight(children) - ClientHeight

\* the setter of Element.scrollTop clamps to the scrollable range
SetScrollTop(children, y) == Max(0, Min(y, MaxScrollTop(children)))

\* the setter of Node.textContent (line 44): null and undefined give ""
TextContent(v) == IF v.t = "string" THEN v.s ELSE <<>>

(***************************************************************************)
(* The state.                                                              *)
(***************************************************************************)
VARIABLES
    userInput,   \* userInput.value
    chatBox,     \* #chat-box: its children (the transcript) and its scrollTop
    origin,      \* history: per child of chatBox, the activation and the
                 \* call of appendMessage it comes from
    network,     \* the requests fetch has issued, in order
    handlers     \* the activations of the submit listener, in order: the
                 \* local messageText, where the activation stands (pc),
                 \* and as history what was typed, how its promises
                 \* settled and what it logged

vars == <<userInput, chatBox, origin, network, handlers>>

\* the state as one value, for the operators below
St ==
    [userInput |-> userInput, chatBox |-> chatBox, origin |-> origin,
     network |-> network, handlers |-> handlers]

transcript == chatBox.children

(***************************************************************************)
(* appendMessage(text, sender), lines 39-50.                               *)
(***************************************************************************)
\* appendMessage inserting the new message before the first one
appendMessagePrepend(st, text, sender) ==
    LET messageDiv == [text |-> TextContent(text), sender |-> sender]
        children == <<messageDiv>> \o st.chatBox.children
    IN  [st EXCEPT !.chatBox =
            [children |-> children,
             scrollTop |-> SetScrollTop(children, ScrollHeight(children))]]

\* appendMessage scrolling before it appends: scrollHeight is read without
\* the new message
appendMessageScrollFirst(st, text, sender) ==
    LET messageDiv == [text |-> TextContent(text), sender |-> sender]
        old == st.chatBox.children
    IN  [st EXCEPT !.chatBox =
            [children |-> Append(old, messageDiv),
             scrollTop |-> SetScrollTop(old, ScrollHeight(old))]]

appendMessage(st, text, sender) ==
    LET messageDiv == [text |-> TextContent(text), sender |-> sender]
        children == Append(st.chatBox.children, messageDiv)
    IN  [st EXCEPT !.chatBox =
            [children |-> children,
             scrollTop |-> SetScrollTop(children, ScrollHeight(children))]]

\* history: the children appended since `before` come from activation h,
\* call site `site`
Tag(before, st, h, site) ==
    [st EXCEPT !.origin =
        @ \o [i \in 1..(Len(st.chatBox.children) - Len(before.chatBox.children))
                |-> [h |-> h, site |-> site]]]

(***************************************************************************)
(* fetch("/chat", {...}), lines 17-23: issues one request.  `seen` is      *)
(* history: what the page showed when the request was issued.              *)
(***************************************************************************)
fetch(st, h, url, method, contentType, body) ==
    [st EXCEPT !.network =
        Append(@, [h |-> h, url |-> url, method |-> method,
                   contentType |-> contentType, body |-> body,
                   seen |-> [children |-> st.chatBox.children,
                             userInput |-> st.userInput]])]

(***************************************************************************)
(* The submit listener up to its first await, lines 6-23.                  *)
(***************************************************************************)
NoFetch == [kind |-> "pending", status |-> 0]
NoJson == [kind |-> "pending", data |-> NoData]

\* SubmitHandler comparing userInput.value itself with "": no trim
SubmitHandlerNoTrim(st) ==
    LET messageText == st.userInput
        h == Len(st.handlers) + 1
    IN  IF messageText = <<>> THEN st
        ELSE
        LET s1 == Tag(st, appendMessage(st, Str(messageText), "user"), h, "user")
            s2 == [s1 EXCEPT !.userInput = <<>>]
            s3 == fetch(s2, h, "/chat", "POST", "application/json",
                        JSONStringify(messageText))
        IN  [s3 EXCEPT !.handlers =
                Append(@, [typed |-> st.userInput,
                           messageText |-> messageText, pc |-> "awaitFetch",
                           fetch |-> NoFetch, json |-> NoJson,
                           logged |-> <<>>])]

\* SubmitHandler calling fetch before it shows the message and clears the
\* input
SubmitHandlerFetchFirst(st) ==
    LET messageText == Trim(st.userInput)
        h == Len(st.handlers) + 1
    IN  IF messageText = <<>> THEN st
        ELSE
        LET s1 == fetch(st, h, "/chat", "POST", "application/json",
                        JSONStringify(messageText))
            s2 == Tag(s1, appendMessage(s1, Str(messageText), "user"), h, "user")
            s3 == [s2 EXCEPT !.userInput = <<>>]
        IN  [s3 EXCEPT !.handlers =
                Append(@, [typed |-> st.userInput,
                           messageText |-> messageText, pc |-> "awaitFetch",
                           fetch |-> NoFetch, json |-> NoJson,
                           logged |-> <<>>])]

\* SubmitHandler of a widget that a caught error has put out of use
SubmitHandlerDeadAfterError(st) ==
    LET messageText == Trim(st.userInput)
        h == Len(st.handlers) + 1
    IN  IF messageText = <<>> THEN st
        ELSE IF \E g \in 1..Len(st.handlers) : st.handlers[g].logged # <<>>
        THEN st
        ELSE
        LET s1 == Tag(st, appendMessage(st, Str(messageText), "user"), h, "user")
            s2 == [s1 EXCEPT !.userInput = <<>>]
            s3 == fetch(s2, h, "/chat", "POST", "application/json",
                        JSONStringify(messageText))
        IN  [s3 EXCEPT !.handlers =
                Append(@, [typed |-> st.userInput,
                           messageText |-> messageText, pc |-> "awaitFetch",
                           fetch |-> NoFetch, json |-> NoJson,
                           logged |-> <<>>])]

\* SubmitHandler ignoring a submit while a request is in flight
SubmitHandlerWhenIdle(st) ==
    LET messageText == Trim(st.userInput)
        h == Len(st.handlers) + 1
    IN  IF messageText = <<>> THEN st
        ELSE IF \E g \in 1..Len(st.handlers) : st.handlers[g].pc # "done"
        THEN st
        ELSE
        LET s1 == Tag(st, appendMessage(st, Str(messageText), "user"), h, "user")
            s2 == [s1 EXCEPT !.userInput = <<>>]
            s3 == fetch(s2, h, "/chat", "POST", "application/json",
                        JSONStringify(messageText))
        IN  [s3 EXCEPT !.handlers =
                Append(@, [typed |-> st.userInput,
                           messageText |-> messageText, pc |-> "awaitFetch",
                           fetch |-> NoFetch, json |-> NoJson,
                           logged |-> <<>>])]

SubmitHandler(st) ==
    LET messageText == Trim(st.userInput)
        h == Len(st.handlers) + 1
    IN  IF messageText = <<>> THEN st
        ELSE
        LET s1 == Tag(st, appendMessage(st, Str(messageText), "user"), h, "user")
            s2 == [s1 EXCEPT !.userInput = <<>>]
            s3 == fetch(s2, h, "/chat", "POST", "application/json",
                        JSONStringify(messageText))
        IN  [s3 EXCEPT !.handlers =
                Append(@, [typed |-> st.userInput,
                           messageText |-> messageText, pc |-> "awaitFetch",
                           fetch |-> NoFetch, json |-> NoJson,
                           logged |-> <<>>])]

(***************************************************************************)
(* The catch block, lines 33-36.                                           *)
(***************************************************************************)
\* CatchBlock resetting the input field as the submit path does
CatchBlockClearsInput(st, h, error) ==
    LET s1 == [st EXCEPT !.handlers[h].logged = <<"Error:">> \o error]
        s2 == Tag(s1, appendMessage(s1, Str(Fallback), "bot"), h, "fallback")
    IN  [s2 EXCEPT !.handlers[h].pc = "done", !.userInput = <<>>]

\* CatchBlock showing the error it caught instead of the fixed words
CatchBlockShowsError(st, h, error) ==
    LET s1 == [st EXCEPT !.handlers[h].logged = <<"Error:">> \o error]
        s2 == Tag(s1, appendMessage(s1, Str(error), "bot"), h, "fallback")
    IN  [s2 EXCEPT !.handlers[h].pc = "done"]

\* CatchBlock sending the message once more after it showed the fallback
CatchBlockRetry(st, h, error) ==
    LET s1 == [st EXCEPT !.handlers[h].logged = <<"Error:">> \o error]
        s2 == Tag(s1, appendMessage(s1, Str(Fallback), "bot"), h, "fallback")
        s3 == fetch(s2, h, "/chat", "POST", "application/json",
                    JSONStringify(st.handlers[h].messageText))
    IN  [s3 EXCEPT !.handlers[h].pc = "done"]

CatchBlock(st, h, error) ==
    LET s1 == [st EXCEPT !.handlers[h].logged = <<"Error:">> \o error]
        s2 == Tag(s1, appendMessage(s1, Str(Fallback), "bot"), h, "fallback")
    IN  [s2 EXCEPT !.handlers[h].pc = "done"]

(***************************************************************************)
(* The listener resumed when the promise of fetch settles, lines 17-29.    *)
(***************************************************************************)
\* Response.ok
ResponseOk(status) == status >= 200 /\ status <= 299

FetchResults ==
    {[kind |-> "rejected", status |-> 0]}
        \cup {[kind |-> "response", status |-> s] : s \in Statuses}

\* AfterFetch showing the fallback as a placeholder as soon as the headers
\* of a success response are in, before the body is read
AfterFetchPlaceholder(st, h, result) ==
    LET s1 == [st EXCEPT !.handlers[h].fetch = result]
    IN  IF result.kind = "rejected"
        THEN CatchBlock(s1, h, <<"TypeError: Failed to fetch">>)
        ELSE IF ~ResponseOk(result.status)
        THEN CatchBlock(s1, h,
                 <<"HTTP error! status: ", ToString(result.status)>>)
        ELSE
        LET s2 == Tag(s1, appendMessage(s1, Str(Fallback), "bot"), h, "fallback")
        IN  [s2 EXCEPT !.handlers[h].pc = "awaitJson"]

AfterFetch(st, h, result) ==
    LET s1 == [st EXCEPT !.handlers[h].fetch = result]
    IN  IF result.kind = "rejected"
        THEN CatchBlock(s1, h, <<"TypeError: Failed to fetch">>)
        ELSE IF ~ResponseOk(result.status)
        THEN CatchBlock(s1, h,
                 <<"HTTP error! status: ", ToString(result.status)>>)
        ELSE [s1 EXCEPT !.handlers[h].pc = "awaitJson"]

(***************************************************************************)
(* The listener resumed when the promise of response.json() settles,       *)
(* lines 29-36.                                                            *)
(***************************************************************************)
JsonResults ==
    {[kind |-> "rejected", data |-> NoData]}
        \cup {[kind |-> "data", data |-> d] : d \in Bodies}

\* data.response (line 31): undefined when the member is missing
GetResponse(data) == IF data.has THEN Str(data.response) ELSE Undefined

\* AfterJson with the fallback in a finally block: shown after the reply too
AfterJsonAlsoFallback(st, h, result) ==
    LET s1 == [st EXCEPT !.handlers[h].json = result]
    IN  IF result.kind = "rejected"
        THEN CatchBlock(s1, h, <<"SyntaxError: Unexpected token">>)
        ELSE IF result.data.t = "null"
        THEN CatchBlock(s1, h, <<"TypeError: Cannot read properties of null">>)
        ELSE
        LET s2 == Tag(s1, appendMessage(s1, GetResponse(result.data), "bot"),
                      h, "reply")
        IN  CatchBlock(s2, h, <<>>)

\* AfterJson putting the reply right under the user message it answers
AfterJsonReplyInPlace(st, h, result) ==
    LET s1 == [st EXCEPT !.handlers[h].json = result]
    IN  IF result.kind = "rejected"
        THEN CatchBlock(s1, h, <<"SyntaxError: Unexpected token">>)
        ELSE IF result.data.t = "null"
        THEN CatchBlock(s1, h, <<"TypeError: Cannot read properties of null">>)
        ELSE
        LET u == CHOOSE i \in 1..Len(s1.origin) :
                     s1.origin[i] = [h |-> h, site |-> "user"]
            old == s1.chatBox.children
            messageDiv == [text |-> TextContent(GetResponse(result.data)),
                           sender |-> "bot"]
            children == SubSeq(old, 1, u) \o <<messageDiv>>
                            \o SubSeq(old, u + 1, Len(old))
        IN  [s1 EXCEPT
                !.chatBox = [children |-> children,
                             scrollTop |-> SetScrollTop(children,
                                               ScrollHeight(children))],
                !.origin = SubSeq(@, 1, u) \o <<[h |-> h, site |-> "reply"]>>
                               \o SubSeq(@, u + 1, Len(@)),
                !.handlers[h].pc = "done"]

AfterJson(st, h, result) ==
    LET s1 == [st EXCEPT !.handlers[h].json = result]
    IN  IF result.kind = "rejected"
        THEN CatchBlock(s1, h, <<"SyntaxError: Unexpected token">>)
        ELSE IF result.data.t = "null"
        THEN CatchBlock(s1, h, <<"TypeError: Cannot read properties of null">>)
        ELSE
        LET s2 == Tag(s1, appendMessage(s1, GetResponse(result.data), "bot"),
                      h, "reply")
        IN  [s2 EXCEPT !.handlers[h].pc = "done"]

(***************************************************************************)
(* Initial state and actions.                                              *)
(***************************************************************************)
Init ==
    /\ userInput = <<>>
    /\ chatBox = [children |-> <<>>, scrollTop |-> 0]
    /\ origin = <<>>
    /\ network = <<>>
    /\ handlers = <<>>

Install(st) ==
    /\ userInput' = st.userInput
    /\ chatBox' = st.chatBox
    /\ origin' = st.origin
    /\ network' = st.network
    /\ handlers' = st.handlers

\* the user edits #user-input
SetInput(s) ==
    /\ userInput' = s
    /\ UNCHANGED <<chatBox, origin, network, handlers>>

\* the user scrolls #chat-box
UserScroll(y) ==
    /\ chatBox' = [chatBox EXCEPT !.scrollTop = y]
    /\ UNCHANGED <<userInput, origin, network, handlers>>

\* the form is submitted
Submit ==
    /\ Trim(userInput) # <<>> => Len(handlers) < MaxSubmissions
    /\ Install(SubmitHandler(St))

FetchSettle(h, result) ==
    /\ handlers[h].pc = "awaitFetch"
    /\ Install(AfterFetch(St, h, result))

JsonSettle(h, result) ==
    /\ handlers[h].pc = "awaitJson"
    /\ Install(AfterJson(St, h, result))

Next ==
    \/ \E s \in Inputs : SetInput(s)
    \/ \E y \in 0..MaxScrollTop(transcript) : UserScroll(y)
    \/ Submit
    \/ \E h \in 1..Len(handlers) : \E result \in FetchResults :
           FetchSettle(h, result)
    \/ \E h \in 1..Len(handlers) : \E result \in JsonResults :
           JsonSettle(h, result)

Spec == Init /\ [][Next]_vars

(***************************************************************************)
(* Notions the properties are stated with.                                 *)
(***************************************************************************)
Last(s) == s[Len(s)]

UserMessage(text) == [text |-> text, sender |-> "user"]
BotMessage(text) == [text |-> text, sender |-> "bot"]

\* the places in the transcript of the messages activation h appended
UserIndices(h) ==
    {i \in 1..Len(origin) : origin[i].h = h /\ origin[i].site = "user"}
BotIndices(h) ==
    {i \in 1..Len(origin) : origin[i].h = h /\ origin[i].site # "user"}

(***************************************************************************)
(* C1: in every state whose input is empty or only whitespace, a submit    *)
(* event changes nothing: the transcript, the requests issued and the      *)
(* value of the input field after the listener ran are those before it.    *)
(***************************************************************************)
C1_BlankSubmitNoEffect ==
    Trim(userInput) = <<>> =>
        LET after == SubmitHandler(St)
        IN  /\ after.chatBox = chatBox
            /\ after.network = network
            /\ after.userInput = userInput
            /\ after = St

\* a page with a conversation under way, a request in flight, and an input of
\* whitespace only: the state a submit of it starts from and ends in
C1_Witness ==
    /\ userInput # <<>>
    /\ Trim(userInput) = <<>>
    /\ Len(transcript) > 0
    /\ \E h \in 1..Len(handlers) : handlers[h].pc = "awaitFetch"

(***************************************************************************)
(* C2: in every state whose trimmed input s is not empty, a submit event   *)
(* appends exactly one message, the user message with text trim(s), at the *)
(* end of the transcript and clears the input field, and the one request   *)
(* it issues is issued when both have happened.                            *)
(***************************************************************************)
C2_SubmitShowsThenSends ==
    Trim(userInput) # <<>> =>
        LET after == SubmitHandler(St)
        IN  /\ after.chatBox.children =
                   Append(transcript, UserMessage(Trim(userInput)))
            /\ after.userInput = <<>>
            /\ Len(after.network) = Len(network) + 1
            /\ Last(after.network).seen.children = after.chatBox.children
            /\ Last(after.network).seen.userInput = <<>>
            /\ Last(after.handlers).pc = "awaitFetch"

\* a submission of typed text with whitespace around it has run: its message
\* is shown trimmed, it was shown when the request went out, and the request
\* has not settled
C2_Witness ==
    \E h \in 1..Len(handlers) :
        /\ handlers[h].pc = "awaitFetch"
        /\ handlers[h].typed # handlers[h].messageText
        /\ Last(network[h].seen.children) = UserMessage(Trim(handlers[h].typed))
        /\ network[h].seen.userInput = <<>>
        /\ Len(transcript) >= 3

(***************************************************************************)
(* How the request of activation h ended.                                  *)
(***************************************************************************)
Settled(h) == handlers[h].pc = "done"

\* fetch rejected: the endpoint was not reached
NetworkFailure(h) == handlers[h].fetch.kind = "rejected"
\* a response with a status outside 200..299
HttpFailure(h) ==
    /\ handlers[h].fetch.kind = "response"
    /\ ~ResponseOk(handlers[h].fetch.status)
\* a body that is not JSON
JsonFailure(h) == handlers[h].json.kind = "rejected"
Failed(h) == NetworkFailure(h) \/ HttpFailure(h) \/ JsonFailure(h)

\* a success status and a body {"response": r}
Replied(h) ==
    /\ handlers[h].fetch.kind = "response"
    /\ ResponseOk(handlers[h].fetch.status)
    /\ handlers[h].json.kind = "data"
    /\ handlers[h].json.data.t = "object"
    /\ handlers[h].json.data.has
Reply(h) == handlers[h].json.data.response

\* a success status and a JSON body without a "response" member
FieldMissing(h) ==
    /\ handlers[h].fetch.kind = "response"
    /\ ResponseOk(handlers[h].fetch.status)
    /\ handlers[h].json.kind = "data"
    /\ ~handlers[h].json.data.has

\* the one place of set S; 0 when S is not a singleton
TheOne(S) == IF Cardinality(S) = 1 THEN CHOOSE i \in S : TRUE ELSE 0

(***************************************************************************)
(* C3: when the request of a submission settled with a success status and  *)
(* a body {"response": r}, the submission has exactly one bot message, its *)
(* text is r, it was appended by the reply call of appendMessage (not the  *)
(* fallback one), it stands after the submission's user message, and the   *)
(* submission has no further message.                                      *)
(***************************************************************************)
C3_SuccessShowsReply ==
    \A h \in 1..Len(handlers) :
        Replied(h) =>
            /\ Settled(h)
            /\ Cardinality(BotIndices(h)) = 1
            /\ Cardinality(UserIndices(h)) = 1
            /\ LET b == TheOne(BotIndices(h))
                   u == TheOne(UserIndices(h))
               IN  /\ transcript[b] = BotMessage(Reply(h))
                   /\ origin[b].site = "reply"
                   /\ u < b

\* the spec's scenario: one submission, answered 200 {"response": "ok"}
C3_Witness ==
    /\ Len(handlers) = 1
    /\ Replied(1)
    /\ transcript =
           <<UserMessage(handlers[1].messageText), BotMessage(<<"o", "k">>)>>

(***************************************************************************)
(* C4: when the request of a submission failed (network error, status      *)
(* outside the success range, body that is not JSON), the submission has   *)
(* exactly one bot message and its text is the fixed fallback; the text    *)
(* holds nothing of the error that was logged, the status code included.   *)
(***************************************************************************)
Units(s) == {s[i] : i \in 1..Len(s)}

C4_FailureShowsFallback ==
    \A h \in 1..Len(handlers) :
        Failed(h) =>
            /\ Settled(h)
            /\ Cardinality(BotIndices(h)) = 1
            /\ LET b == TheOne(BotIndices(h))
               IN  /\ transcript[b] = BotMessage(Fallback)
                   /\ handlers[h].logged # <<>>
                   /\ Units(transcript[b].text) \cap Units(handlers[h].logged) = {}
                   /\ ToString(handlers[h].fetch.status)
                          \notin Units(transcript[b].text)

\* two submissions, one failed with status 500 and one with a network error,
\* show the same text
C4_Witness ==
    /\ Len(handlers) = 2
    /\ HttpFailure(1) /\ handlers[1].fetch.status = 500
    /\ NetworkFailure(2)
    /\ transcript[TheOne(BotIndices(1))] = transcript[TheOne(BotIndices(2))]
    /\ handlers[1].logged # handlers[2].logged

(***************************************************************************)
(* C5: when the request of a submission settled with a success status and  *)
(* a JSON body without a "response" member, the bot message of the         *)
(* submission is the fixed fallback.                                       *)
(***************************************************************************)
C5_MissingFieldShowsFallback ==
    \A h \in 1..Len(handlers) :
        FieldMissing(h) =>
            /\ Cardinality(BotIndices(h)) = 1
            /\ transcript[TheOne(BotIndices(h))] = BotMessage(Fallback)

(***************************************************************************)
(* C6: once the request of a submission has settled, the transcript holds  *)
(* exactly one bot message of that submission, after the submission's user *)
(* message, and it is the reply of the server or the fallback text.        *)
(***************************************************************************)
\* what the widget is to show for a settled submission
Answer(h) == IF Replied(h) THEN Reply(h) ELSE Fallback

C6_SettledHasItsAnswer ==
    \A h \in 1..Len(handlers) :
        Settled(h) =>
            /\ Cardinality(BotIndices(h)) = 1
            /\ Cardinality(UserIndices(h)) = 1
            /\ TheOne(UserIndices(h)) < TheOne(BotIndices(h))
            /\ transcript[TheOne(BotIndices(h))] = BotMessage(Answer(h))

(***************************************************************************)
(* C7: when the second submission was made with the first one's bot        *)
(* message on the page and both have settled, the transcript is            *)
(* [user: trim(s1), bot: r1, user: trim(s2), bot: r2], ri the reply or the *)
(* fallback of submission i.                                               *)
(***************************************************************************)
\* the page showed user 1, bot 1 and user 2 when request 2 was issued
Sequential ==
    /\ Len(handlers) >= 2
    /\ Len(network) >= 2
    /\ Len(network[2].seen.children) = 3
    /\ BotIndices(1) = {2}

C7_SequentialOrder ==
    (Sequential /\ Settled(1) /\ Settled(2)) =>
        SubSeq(transcript, 1, 4) =
            << UserMessage(Trim(handlers[1].typed)), BotMessage(Answer(1)),
               UserMessage(Trim(handlers[2].typed)), BotMessage(Answer(2)) >>

(***************************************************************************)
(* C8: the transcript is append-only: every step leaves it as it is or     *)
(* extends it by exactly one message at its end; the messages it held keep *)
(* their place, text and sender.                                           *)
(***************************************************************************)
C8_AppendOnly ==
    [][ \/ transcript' = transcript
        \/ /\ Len(transcript') = Len(transcript) + 1
           /\ SubSeq(transcript', 1, Len(transcript)) = transcript ]_vars

\* a transcript that grew by appends of both kinds, around a failed request
C8_Witness ==
    /\ Len(transcript) = 4
    /\ transcript[1].sender = "user"
    /\ transcript[2].sender = "user"
    /\ transcript[3] = BotMessage(Fallback)
    /\ transcript[4] = BotMessage(<<"o", "k">>)

(***************************************************************************)
(* C9: after every step that appends a message, the scroll offset of the   *)
(* transcript view is its largest scrollable extent, measured with the new *)
(* message in it.                                                          *)
(***************************************************************************)
C9_ScrolledToEnd ==
    [][ transcript' # transcript =>
            /\ chatBox'.scrollTop = MaxScrollTop(transcript')
            /\ chatBox'.scrollTop = ScrollHeight(transcript') - ClientHeight ]_vars

\* the content overflows the box and the append of a bot message has left
\* the view at its end, a positive offset
C9_Witness ==
    /\ Len(transcript) > ClientHeight
    /\ chatBox.scrollTop = Len(transcript) - ClientHeight
    /\ chatBox.scrollTop > 0
    /\ Last(transcript).sender = "bot"

(***************************************************************************)
(* C10: the requests ever issued are, in order, one per non-empty          *)
(* submission: a POST to /chat whose JSON body carries as "message" the    *)
(* trimmed text of that submission.  Settlements, failures included, issue *)
(* none.                                                                   *)
(***************************************************************************)
C10_OneRequestPerSubmission ==
    /\ Len(network) = Len(handlers)
    /\ \A i \in 1..Len(network) :
           /\ network[i].h = i
           /\ network[i].method = "POST"
           /\ network[i].url = "/chat"
           /\ network[i].contentType = "application/json"
           /\ network[i].body = JSONStringify(Trim(handlers[i].typed))
           /\ MessageOf(network[i].body) = Trim(handlers[i].typed)

\* two submissions with different texts, one needing escapes in JSON, both
\* failed: still two requests
C10_Witness ==
    /\ Len(handlers) = 2
    /\ Len(network) = 2
    /\ Failed(1) /\ Failed(2) /\ Settled(1) /\ Settled(2)
    /\ "\"" \in Units(handlers[1].messageText)
    /\ handlers[2].typed = <<" ", "a", " ">>
    /\ MessageOf(network[2].body) = <<"a">>

(***************************************************************************)
(* A submission on a page of its own.                                      *)
(***************************************************************************)
\* the page on which submission h is the only one and its request is in
\* flight, the activation standing at pc
Alone(h, pc) ==
    [userInput |-> <<>>,
     chatBox |-> [children |-> <<UserMessage(handlers[h].messageText)>>,
                  scrollTop |-> 0],
     origin |-> <<[h |-> 1, site |-> "user"]>>,
     network |-> <<[network[h] EXCEPT !.h = 1]>>,
     handlers |-> <<[handlers[h] EXCEPT !.pc = pc, !.fetch = NoFetch,
                                        !.json = NoJson, !.logged = <<>>]>>]

\* the messages of state `after` that state `before` does not show
Appended(before, after) ==
    SubSeq(after.chatBox.children, Len(before.chatBox.children) + 1,
           Len(after.chatBox.children))

\* every activation but h, and every request, is in `after` what it is now
OthersUntouched(h, after) ==
    /\ Len(after.handlers) = Len(handlers)
    /\ \A g \in 1..Len(handlers) : g # h => after.handlers[g] = handlers[g]
    /\ after.network = network

Pending(h) == handlers[h].pc # "done"
NumPending == Cardinality({h \in 1..Len(handlers) : Pending(h)})

(***************************************************************************)
(* C11: a non-empty submit is accepted whatever the number of requests in  *)
(* flight: it appends its user message and issues its own request at once  *)
(* and leaves every earlier activation and request as it is; and when a    *)
(* request settles, the other activations and the requests stay as they    *)
(* are and the bot message appended is the one the same outcome gives on a *)
(* page where the submission is alone.                                     *)
(***************************************************************************)
\* `after`, the state a non-empty submit leads to, has the earlier
\* activations and requests as they are, and one more of each
SubmitAccepted(after) ==
    /\ Len(after.handlers) = Len(handlers) + 1
    /\ SubSeq(after.handlers, 1, Len(handlers)) = handlers
    /\ Last(after.handlers).pc = "awaitFetch"
    /\ Len(after.network) = Len(network) + 1
    /\ SubSeq(after.network, 1, Len(network)) = network
    /\ Last(after.network).body = JSONStringify(Trim(userInput))
    /\ Appended(St, after) = <<UserMessage(Trim(userInput))>>

\* `after`, the state a settlement of h leads to, differs from this one as
\* `alone` differs from `page`, the page on which h is alone
SettlesAsAlone(h, after, page, alone) ==
    /\ OthersUntouched(h, after)
    /\ Appended(St, after) = Appended(page, alone)
    /\ after.handlers[h].pc = alone.handlers[1].pc

C11_IndependentSubmissions ==
    /\ Trim(userInput) # <<>> => SubmitAccepted(SubmitHandler(St))
    /\ \A h \in 1..Len(handlers) :
           /\ handlers[h].pc = "awaitFetch" =>
                  \A result \in FetchResults :
                      SettlesAsAlone(h, AfterFetch(St, h, result),
                          Alone(h, "awaitFetch"),
                          AfterFetch(Alone(h, "awaitFetch"), 1, result))
           /\ handlers[h].pc = "awaitJson" =>
                  \A result \in JsonResults :
                      SettlesAsAlone(h, AfterJson(St, h, result),
                          Alone(h, "awaitJson"),
                          AfterJson(Alone(h, "awaitJson"), 1, result))

\* the second submission was accepted with the first request in flight, and
\* both requests are in flight
C11_Witness ==
    /\ Len(handlers) = 2
    /\ Len(network) = 2
    /\ NumPending = 2
    /\ handlers[1].pc = "awaitJson"
    /\ handlers[2].pc = "awaitFetch"
    /\ transcript = <<UserMessage(handlers[1].messageText),
                      UserMessage(handlers[2].messageText)>>
    /\ handlers[1].messageText # handlers[2].messageText

(***************************************************************************)
(* C12: no failure is fatal.  In every state in which a request has        *)
(* failed, a non-empty submit appends its user message, clears the input   *)
(* and issues its request; and a submission made after a failure gets,     *)
(* when its request settles, the one bot message the same outcome gives on *)
(* a page where the submission is alone.                                   *)
(***************************************************************************)
SomeFailure == \E h \in 1..Len(handlers) : Settled(h) /\ Failed(h)

\* submission g was made with the fallback of a failed submission on the
\* page
AfterFailure(g) ==
    \E b \in 1..Len(origin) :
        /\ origin[b].site = "fallback"
        /\ Failed(origin[b].h)
        /\ \A u \in 1..Len(origin) :
               origin[u] = [h |-> g, site |-> "user"] => b < u

\* what the outcome of settled submission g shows on a page of its own
ShownAlone(g) ==
    IF handlers[g].json.kind = "pending"
    THEN Appended(Alone(g, "awaitFetch"),
                  AfterFetch(Alone(g, "awaitFetch"), 1, handlers[g].fetch))
    ELSE Appended(Alone(g, "awaitJson"),
                  AfterJson(Alone(g, "awaitJson"), 1, handlers[g].json))

\* `after`, the state a non-empty submit leads to, shows the message, has
\* the input cleared and the request issued
SubmitWorks(after) ==
    /\ Appended(St, after) = <<UserMessage(Trim(userInput))>>
    /\ after.userInput = <<>>
    /\ Len(after.network) = Len(network) + 1
    /\ Last(after.network).h = Len(handlers) + 1
    /\ Last(after.handlers).pc = "awaitFetch"

C12_UsableAfterFailure ==
    SomeFailure =>
        /\ Trim(userInput) # <<>> => SubmitWorks(SubmitHandler(St))
        /\ \A g \in 1..Len(handlers) :
               AfterFailure(g) =>
                   /\ Cardinality(UserIndices(g)) = 1
                   /\ transcript[TheOne(UserIndices(g))] =
                          UserMessage(Trim(handlers[g].typed))
                   /\ Len(network) >= g /\ network[g].h = g
                   /\ Settled(g) =>
                          /\ Cardinality(BotIndices(g)) = 1
                          /\ <<transcript[TheOne(BotIndices(g))]>> = ShownAlone(g)

\* the first request failed, the second submission was made after that and
\* was answered with the reply of the server
C12_Witness ==
    /\ Len(handlers) = 2
    /\ Settled(1) /\ Failed(1)
    /\ AfterFailure(2)
    /\ Settled(2) /\ Replied(2)
    /\ transcript = <<UserMessage(handlers[1].messageText), BotMessage(Fallback),
                      UserMessage(handlers[2].messageText),
                      BotMessage(<<"o", "k">>)>>

(***************************************************************************)
(* C13: a bot message of a submission is in the transcript only if the     *)
(* request of that submission has settled: while it is in flight, be it    *)
(* for ever, the submission has its user message and no bot message,       *)
(* neither reply nor fallback.                                             *)
(***************************************************************************)
C13_NoAnswerBeforeSettlement ==
    \A h \in 1..Len(handlers) :
        /\ BotIndices(h) # {} => Settled(h)
        /\ Pending(h) =>
               /\ Cardinality(UserIndices(h)) = 1
               /\ \A i \in 1..Len(origin) :
                      origin[i].h = h =>
                          /\ origin[i].site = "user"
                          /\ transcript[i].sender = "user"

\* the first request is in flight, its response headers in and its body not,
\* and has no bot message, while the later second submission has its answer
C13_Witness ==
    /\ Len(handlers) = 2
    /\ handlers[1].pc = "awaitJson"
    /\ BotIndices(1) = {}
    /\ Settled(2)
    /\ BotIndices(2) = {3}
    /\ Len(transcript) = 3

(***************************************************************************)
(* C14: the user messages of the transcript are as many as its bot         *)
(* messages and the submissions whose request has not settled together; no *)
(* prefix of the transcript holds more bot than user messages, and a       *)
(* transcript that is not empty starts with a user message.                *)
(***************************************************************************)
CountSender(s, sender) ==
    Cardinality({i \in 1..Len(s) : s[i].sender = sender})

C14_UserBotBalance ==
    /\ CountSender(transcript, "user") =
           CountSender(transcript, "bot") + NumPending
    /\ \A n \in 0..Len(transcript) :
           CountSender(SubSeq(transcript, 1, n), "bot")
               <= CountSender(SubSeq(transcript, 1, n), "user")
    /\ transcript # <<>> => transcript[1].sender = "user"

\* two user messages, one answered and one with its request in flight
C14_Witness ==
    /\ CountSender(transcript, "user") = 2
    /\ CountSender(transcript, "bot") = 1
    /\ NumPending = 1
    /\ transcript[3].sender = "bot"

(***************************************************************************)
(* C15: bot messages are appended in the order in which the requests       *)
(* settle: the step in which the request of submission h settles puts the  *)
(* bot message of h at the end of the transcript, below the bot messages   *)
(* of all submissions that settled before, whenever these were submitted.  *)
(* So for s1, s2 overlapping with s2 settling first the transcript is      *)
(* [user: s1, user: s2, bot: r2, bot: r1].                                 *)
(***************************************************************************)
\* the request of h settles in this step
Settles(h) == handlers[h].pc # "done" /\ handlers'[h].pc = "done"

C15_AnswersInSettlementOrder ==
    [][ \A h \in 1..Len(handlers) :
            Settles(h) =>
                /\ Len(transcript') = Len(transcript) + 1
                /\ SubSeq(transcript', 1, Len(transcript)) = transcript
                /\ SubSeq(origin', 1, Len(origin)) = origin
                /\ Last(transcript').sender = "bot"
                /\ Last(origin').h = h
                /\ \A g \in 1..Len(handlers) :
                       handlers[g].pc = "done" =>
                           \A i \in 1..Len(origin) :
                               origin'[i].h = g => i < Len(origin') ]_vars

\* s1 and s2 overlapped and s2 settled first: [user s1, user s2, bot r2,
\* bot r1], r2 the reply of the server and r1 the fallback
C15_Witness ==
    /\ Len(handlers) = 2
    /\ [i \in 1..Len(origin) |-> origin[i].h] = <<1, 2, 2, 1>>
    /\ transcript = <<UserMessage(handlers[1].messageText),
                      UserMessage(handlers[2].messageText),
                      BotMessage(<<"o", "k">>),
                      BotMessage(Fallback)>>
    /\ Replied(2) /\ Failed(1)

(***************************************************************************)
(* C16: a step in which a promise of an activation settles leaves the      *)
(* input field, the requests issued and every other activation as they     *)
(* are; when it ends the activation it appends one bot message and sets    *)
(* the scroll offset, and otherwise (the headers of a success response)    *)
(* it leaves the transcript view as it is too.                             *)
(***************************************************************************)
\* a promise of h settles in this step
Resumes(h) == handlers'[h].pc # handlers[h].pc

C16_SettlementFrame ==
    [][ \A h \in 1..Len(handlers) :
            Resumes(h) =>
                /\ userInput' = userInput
                /\ network' = network
                /\ Len(handlers') = Len(handlers)
                /\ \A g \in 1..Len(handlers) :
                       g # h => handlers'[g] = handlers[g]
                /\ handlers'[h].messageText = handlers[h].messageText
                /\ IF handlers'[h].pc = "done"
                   THEN /\ Len(transcript') = Len(transcript) + 1
                        /\ SubSeq(transcript', 1, Len(transcript)) = transcript
                        /\ Last(transcript').sender = "bot"
                        /\ chatBox'.scrollTop = MaxScrollTop(transcript')
                   ELSE chatBox' = chatBox ]_vars

\* text typed after the second submit is in the input field, the first
\* request has settled in failure below the second user message, and the
\* second request is still in flight
C16_Witness ==
    /\ Trim(userInput) # <<>>
    /\ Len(handlers) = 2
    /\ Settled(1) /\ Failed(1)
    /\ handlers[2].pc = "awaitJson"
    /\ [i \in 1..Len(origin) |-> origin[i].h] = <<1, 2, 1>>
    /\ Len(network) = 2

====
